---- MODULE Spec2Model ----
(***************************************************************************)
(* A model of scripts/analyze-results.py: the loader that scans a results  *)
(* directory into the result store, and the report driver that renders the *)
(* terminal sections, the markdown tables and the summary from that store. *)
(*                                                                         *)
(* Units.  The script works on floats; the model keeps durations in tenths *)
(* of a second, throughput in whole Mbps and cv in tenths of a percent, so *)
(* that every value the catalogue holds is an integer.                     *)
(***************************************************************************)
EXTENDS Integers, Sequences, FiniteSets, TLC

(***************************************************************************)
(* Bounds of the model.                                                    *)
(***************************************************************************)
\* the largest number of files the results directory holds
MaxFiles == 3

(***************************************************************************)
(* JSON values.  A field of a parsed document is absent, a number, a       *)
(* string, or (for duration_seconds) an object {mean, stdev, cv_percent}.  *)
(***************************************************************************)
Absent == [k |-> "absent", v |-> 0, s |-> ""]
Num(n) == [k |-> "num", v |-> n, s |-> ""]
Str(t) == [k |-> "str", v |-> 0, s |-> t]
Dict(m, sd, cv) ==
    [k |-> "dict", v |-> 0, s |-> "", mean |-> m, stdev |-> sd, cv_percent |-> cv]

\* dict.get(key, default)
Get(val, default) == IF val.k = "absent" THEN default ELSE val

(***************************************************************************)
(* String helpers, computed as Python computes them.                       *)
(***************************************************************************)
StartsWith(s, p) == Len(s) >= Len(p) /\ SubSeq(s, 1, Len(p)) = p

EndsWith(s, p) == Len(s) >= Len(p) /\ SubSeq(s, Len(s) - Len(p) + 1, Len(s)) = p

RECURSIVE Contains(_, _)
Contains(s, sub) ==
    IF Len(s) < Len(sub) THEN FALSE
    ELSE StartsWith(s, sub) \/ Contains(SubSeq(s, 2, Len(s)), sub)

\* str.replace(old, ""): every occurrence, scanning left to right
RECURSIVE Replace(_, _)
Replace(s, old) ==
    IF Len(s) < Len(old) THEN s
    ELSE IF SubSeq(s, 1, Len(old)) = old
         THEN Replace(SubSeq(s, Len(old) + 1, Len(s)), old)
         ELSE SubSeq(s, 1, 1) \o Replace(SubSeq(s, 2, Len(s)), old)

\* Path.stem of a file whose suffix is ".json"
Stem(name) == SubSeq(name, 1, Len(name) - 5)

(***************************************************************************)
(* The files a results directory may hold.  kind is what json.load makes   *)
(* of the file: an object, a list (valid JSON with no .get), or invalid.   *)
(***************************************************************************)
Doc(name, kind) ==
    [name |-> name, kind |-> kind,
     benchmark |-> Absent, parallelism |-> Absent, test |-> Absent,
     duration_seconds |-> Absent, throughput_mbps |-> Absent, runs |-> Absent,
     partial_duration_seconds |-> Absent, resume_duration_seconds |-> Absent,
     total_duration_seconds |-> Absent, file_size_bytes |-> Absent]

Suite(name, bench, dur, thr) ==
    [Doc(name, "object") EXCEPT !.benchmark = bench, !.duration_seconds = dur,
                                !.throughput_mbps = thr, !.runs = Num(3)]

Parallel(name, bench, par, dur, thr) ==
    [Doc(name, "object") EXCEPT !.benchmark = bench, !.parallelism = par,
                                !.duration_seconds = dur, !.throughput_mbps = thr]

Resume(name, test, partial, resume, total, size) ==
    [Doc(name, "object") EXCEPT !.test = test,
                                !.partial_duration_seconds = partial,
                                !.resume_duration_seconds = resume,
                                !.total_duration_seconds = total,
                                !.file_size_bytes = size]

Catalogue ==
    << \* three repeated runs of one suite identity, by name and by field
       Suite("rsync_default_stats.json", Absent,
             Dict(Num(100), Num(2), Num(20)), Num(800)),
       Suite("run2_stats.json", Str("rsync_default"), Num(102), Num(784)),
       Suite("run3_stats.json", Str("rsync_default"), Num(98), Num(816)),
       \* a suite entry that is quicker and moves fewer bits per second
       Suite("tar_plain_stats.json", Absent, Num(90), Num(700)),
       \* the tool_ convention; no throughput was measured
       Suite("tool_rsync_compress.json", Absent,
             Dict(Num(80), Absent, Absent), Num(0)),
       \* a name that matches the _stats suffix and the tool_ prefix
       Suite("tool_rsync_checksum_stats.json", Absent, Num(150), Num(500)),
       \* a duration that is no number
       Suite("tar_zstd_stats.json", Absent, Str("n/a"), Num(650)),
       \* the parallel_ convention
       Parallel("parallel_a.json", Str("parallel_rsync"), Num(1), Num(300), Num(400)),
       Parallel("parallel_b.json", Str("parallel_rsync"), Num(4), Num(100), Num(1200)),
       Parallel("parallel_c.json", Str("parallel_rsync"), Num(4), Num(120), Num(1000)),
       Parallel("parallel_z.json", Str("parallel_rsync"), Num(0), Num(50), Num(0)),
       Parallel("parallel_d.json", Absent, Absent,
                Dict(Num(70), Num(1), Num(14)), Num(900)),
       Parallel("parallel_e.json", Str("rsync"), Num(2), Num(200), Num(600)),
       \* the resume_ convention
       Resume("resume_a.json", Str("rsync"), Num(100), Num(200), Num(300), Num(2048)),
       Resume("resume_b.json", Absent, Num(700), Absent, Num(40000), Absent),
       \* files json.load or data.get fails on
       Doc("broken_stats.json", "invalid"),
       Doc("tool_broken_stats.json", "invalid"),
       Doc("resume_list.json", "list"),
       \* a file no convention recognizes
       Doc("notes.json", "object") >>

FileIds == 1..Len(Catalogue)

(***************************************************************************)
(* State.                                                                  *)
(***************************************************************************)
VARIABLES
    argGiven,      \* sys.argv holds the results directory
    dirExists,     \* the results directory exists
    files,         \* the files of the directory (indices into Catalogue)
    sysInfo,       \* system_info.json: "absent", "valid" or "invalid"
    pc,            \* where the run is
    pending,       \* files of the current rglob not yet visited
    results,       \* the store: <<[key, runs]>> in insertion order
    warnings,      \* the files a "Warning: Could not parse" line was printed for
    messages,      \* the headline lines printed, in order
    termSuite,     \* rows of the terminal suite table
    termParallel,  \* rows of the terminal parallel table
    termResume,    \* rows of the terminal resume table
    mdSuite,       \* rows of the markdown tools table
    mdParallel,    \* rows of the markdown parallel table
    mdResume,      \* rows of the markdown resume table
    fastestTool,   \* the "Fastest Tool" line of the summary report
    written,       \* the files the run has written
    exitCode       \* the process's exit status, -1 while it runs

vars == <<argGiven, dirExists, files, sysInfo, pc, pending, results, warnings,
          messages, termSuite, termParallel, termResume, mdSuite, mdParallel,
          mdResume, fastestTool, written, exitCode>>

input == <<argGiven, dirExists, files, sysInfo>>
report == <<termSuite, termParallel, termResume, mdSuite, mdParallel, mdResume,
            fastestTool>>

NoTool == [key |-> "", throughput |-> 0]

Init ==
    /\ argGiven \in BOOLEAN
    /\ dirExists \in BOOLEAN
    /\ files \in {F \in SUBSET FileIds : Cardinality(F) <= MaxFiles}
    /\ sysInfo \in {"absent", "valid", "invalid"}
    /\ (~argGiven => ~dirExists)
    /\ (~dirExists => files = {} /\ sysInfo = "absent")
    /\ pc = "main"
    /\ pending = {}
    /\ results = <<>>
    /\ warnings = <<>>
    /\ messages = <<>>
    /\ termSuite = <<>>
    /\ termParallel = <<>>
    /\ termResume = <<>>
    /\ mdSuite = <<>>
    /\ mdParallel = <<>>
    /\ mdResume = <<>>
    /\ fastestTool = NoTool
    /\ written = {}
    /\ exitCode = -1

(***************************************************************************)
(* load_results.                                                           *)
(***************************************************************************)
\* Path.rglob(pattern): the files of the directory whose name matches
MatchesStats(name) == EndsWith(name, "_stats.json")
MatchesTool(name) == StartsWith(name, "tool_") /\ EndsWith(name, ".json")
MatchesParallel(name) == StartsWith(name, "parallel_") /\ EndsWith(name, ".json")
MatchesResume(name) == StartsWith(name, "resume_") /\ EndsWith(name, ".json")

Rglob(pass) ==
    {f \in files :
        CASE pass = "stats" -> MatchesStats(Catalogue[f].name)
          [] pass = "tool" -> MatchesTool(Catalogue[f].name)
          [] pass = "parallel" -> MatchesParallel(Catalogue[f].name)
          [] pass = "resume" -> MatchesResume(Catalogue[f].name)}

\* the group key each loop gives a parsed document
KeyStats(f) ==
    Get(Catalogue[f].benchmark, Str(Replace(Stem(Catalogue[f].name), "_stats"))).s

KeyTool(f) ==
    Get(Catalogue[f].benchmark, Str(Replace(Stem(Catalogue[f].name), "tool_"))).s

KeyParallel(f) ==
    Get(Catalogue[f].benchmark, Str("parallel")).s \o "_p"
        \o ToString(Get(Catalogue[f].parallelism, Num(0)).v)

KeyResume(f) == "resume_" \o Get(Catalogue[f].test, Str("unknown")).s

\* json.load(f) and the data.get calls raise nothing
Parses(f) == Catalogue[f].kind = "object"

HasKey(res, key) == \E i \in 1..Len(res) : res[i].key = key

\* a store that keeps the last record of a key only: results[key] = [data]
AppendRunOverwrites(res, key, f) ==
    IF HasKey(res, key)
    THEN [i \in 1..Len(res) |->
            IF res[i].key = key
            THEN [res[i] EXCEPT !.runs = <<f>>]
            ELSE res[i]]
    ELSE Append(res, [key |-> key, runs |-> <<f>>])

\* results[key].append(data) on the defaultdict
AppendRun(res, key, f) ==
    IF HasKey(res, key)
    THEN [i \in 1..Len(res) |->
            IF res[i].key = key
            THEN [res[i] EXCEPT !.runs = Append(@, f)]
            ELSE res[i]]
    ELSE Append(res, [key |-> key, runs |-> <<f>>])

\* the body of one loop iteration: try: load, key, append; except: warn
LoadFile(f, key) ==
    /\ pending' = pending \ {f}
    /\ IF Parses(f)
       THEN /\ results' = AppendRun(results, key, f)
            /\ UNCHANGED warnings
       ELSE /\ warnings' = Append(warnings, f)
            /\ UNCHANGED results
    /\ UNCHANGED <<input, pc, messages, report, written, exitCode>>

\* a loop is over: the next rglob starts
StartPass(from, to) ==
    /\ pc = from
    /\ pending = {}
    /\ pc' = to
    /\ pending' = IF to = "loaded" THEN {} ELSE Rglob(to)
    /\ UNCHANGED <<input, results, warnings, messages, report, written, exitCode>>

Exit(msg, code) ==
    /\ pc' = "exited"
    /\ messages' = Append(messages, msg)
    /\ exitCode' = code
    /\ UNCHANGED <<input, pending, results, warnings, report, written>>

Usage ==
    /\ pc = "main"
    /\ ~argGiven
    /\ Exit("Usage: analyze-results.py <results_directory>", 1)

DirMissing ==
    /\ pc = "main"
    /\ argGiven
    /\ ~dirExists
    /\ Exit("Error: Results directory not found", 1)

LoadStart ==
    /\ pc = "main"
    /\ argGiven
    /\ dirExists
    /\ pc' = "stats"
    /\ pending' = Rglob("stats")
    /\ UNCHANGED <<input, results, warnings, messages, report, written, exitCode>>

LoadStats == pc = "stats" /\ \E f \in pending : LoadFile(f, KeyStats(f))
StatsDone == StartPass("stats", "tool")
LoadTool == pc = "tool" /\ \E f \in pending : LoadFile(f, KeyTool(f))
ToolDone == StartPass("tool", "parallel")
LoadParallel == pc = "parallel" /\ \E f \in pending : LoadFile(f, KeyParallel(f))
ParallelDone == StartPass("parallel", "resume")
LoadResume == pc = "resume" /\ \E f \in pending : LoadFile(f, KeyResume(f))
ResumeDone == StartPass("resume", "loaded")

\* a driver that prints the line and goes on to render
NoResultsGoesOn ==
    /\ pc = "loaded"
    /\ results = <<>>
    /\ pc' = "suite"
    /\ messages' = Append(messages, "No benchmark results found.")
    /\ UNCHANGED <<input, pending, results, warnings, report, written, exitCode>>

\* main, after load_results returned
NoResults ==
    /\ pc = "loaded"
    /\ results = <<>>
    /\ Exit("No benchmark results found.", 1)

Loaded ==
    /\ pc = "loaded"
    /\ results # <<>>
    /\ pc' = "suite"
    /\ messages' = Append(messages, "Loaded results")
    /\ UNCHANGED <<input, pending, results, warnings, report, written, exitCode>>

(***************************************************************************)
(* Formatting helpers.                                                     *)
(***************************************************************************)
\* what a table cell shows: a text, or a number with its unit
Text(t) == [k |-> "text", v |-> 0, s |-> t]
Cell(unit, n) == [k |-> unit, v |-> n, s |-> ""]

\* n/d to the nearest integer, ties to even, as the float formats round
RoundHalfEven(n, d) ==
    LET q == n \div d
        r == n % d
    IN  IF 2 * r < d THEN q
        ELSE IF 2 * r > d THEN q + 1
        ELSE IF q % 2 = 0 THEN q ELSE q + 1

\* format_duration: "{:.1f}s", "{:.1f}m", "{:.1f}h"; a string float() refuses
\* is returned as it is
format_duration(seconds) ==
    IF seconds.k = "str" THEN Text(seconds.s)
    ELSE IF seconds.v < 600 THEN Cell("s", seconds.v)
    ELSE IF seconds.v < 36000 THEN Cell("m", RoundHalfEven(seconds.v, 60))
    ELSE Cell("h", RoundHalfEven(seconds.v, 3600))

\* "seconds < 60" raises TypeError on an object
FormatDurationRaises(seconds) == seconds.k = "dict"

\* format_bytes: "{}B", "{:.1f}KB", "{:.1f}MB", "{:.1f}GB"
format_bytes(bytes_val) ==
    IF bytes_val.k = "str" THEN Text(bytes_val.s)
    ELSE IF bytes_val.v < 1024 THEN Cell("B", bytes_val.v)
    ELSE IF bytes_val.v < 1024 * 1024
         THEN Cell("KB", RoundHalfEven(10 * bytes_val.v, 1024))
    ELSE IF bytes_val.v < 1024 * 1024 * 1024
         THEN Cell("MB", RoundHalfEven(10 * bytes_val.v, 1024 * 1024))
    ELSE Cell("GB", RoundHalfEven(10 * bytes_val.v, 1024 * 1024 * 1024))

\* format_throughput: "{:.2f} Gbps" (in hundredths) or "{:.1f} Mbps" (in tenths)
format_throughput(mbps) ==
    IF mbps >= 1000 THEN Cell("Gbps", RoundHalfEven(mbps, 10))
    ELSE Cell("Mbps", 10 * mbps)

\* "{ratio:.1f}x", in tenths
RatioCell(num, den) == Cell("x", RoundHalfEven(10 * num, den))

(***************************************************************************)
(* Ordering, as list.sort and sorted order their keys.                     *)
(***************************************************************************)
Alphabet == "0123456789_abcdefghijklmnopqrstuvwxyz/"

\* the place of a character in code-point order ("/" sorts before the digits)
Ord(c) ==
    IF c = "/" THEN 0
    ELSE CHOOSE i \in 1..Len(Alphabet) : SubSeq(Alphabet, i, i) = c

RECURSIVE StrLess(_, _)
StrLess(a, b) ==
    IF Len(b) = 0 THEN FALSE
    ELSE IF Len(a) = 0 THEN TRUE
    ELSE IF SubSeq(a, 1, 1) = SubSeq(b, 1, 1)
         THEN StrLess(SubSeq(a, 2, Len(a)), SubSeq(b, 2, Len(b)))
         ELSE Ord(SubSeq(a, 1, 1)) < Ord(SubSeq(b, 1, 1))

\* a < b on two sort keys of one type
KeyLess(a, b) == IF a.k = "num" THEN a.v < b.v ELSE StrLess(a.s, b.s)

\* "<" between a number and a string raises TypeError
SortRaises(rows) ==
    \E i, j \in 1..Len(rows) : rows[i].sortkey.k # rows[j].sortkey.k

\* x goes behind every row that is not greater: the sort is stable
Insert(sorted, x) ==
    LET n == Cardinality({i \in 1..Len(sorted) : ~KeyLess(x.sortkey, sorted[i].sortkey)})
    IN  SubSeq(sorted, 1, n) \o <<x>> \o SubSeq(sorted, n + 1, Len(sorted))

RECURSIVE SortRows(_)
SortRows(rows) ==
    IF rows = <<>> THEN <<>>
    ELSE Insert(SortRows(SubSeq(rows, 1, Len(rows) - 1)), rows[Len(rows)])

(***************************************************************************)
(* Reading the store.                                                      *)
(***************************************************************************)
\* for test in tests: for run in results[test]: one pair per run
RECURSIVE FlattenRuns(_)
FlattenRuns(groups) ==
    IF groups = <<>> THEN <<>>
    ELSE [r \in 1..Len(Head(groups).runs) |->
            [test |-> Head(groups).key, file |-> Head(groups).runs[r]]]
         \o FlattenRuns(Tail(groups))

\* run.get("duration_seconds", {}) and the isinstance(duration_info, dict) branch
DurationInfo(f) == Get(Catalogue[f].duration_seconds, Dict(Absent, Absent, Absent))
MeanOf(f) ==
    IF DurationInfo(f).k = "dict" THEN Get(DurationInfo(f).mean, Num(0))
    ELSE DurationInfo(f)
StdevOf(f) ==
    IF DurationInfo(f).k = "dict" THEN Get(DurationInfo(f).stdev, Num(0))
    ELSE Num(0)
CvOf(f) ==
    IF DurationInfo(f).k = "dict" THEN Get(DurationInfo(f).cv_percent, Num(0))
    ELSE Num(0)

\* run.get("throughput_mbps", 0)
ThroughputOf(f) == Get(Catalogue[f].throughput_mbps, Num(0)).v
\* run.get("parallelism", 1)
ParallelismOf(f) == Get(Catalogue[f].parallelism, Num(1))
\* run.get("duration_seconds", 0)
FlatDurationOf(f) == Get(Catalogue[f].duration_seconds, Num(0))

\* how many rows are printed before the first one that raises; raises[i]
\* tells whether printing row i raises
PrintedBefore(raises) ==
    LET bad == {i \in 1..Len(raises) : raises[i]}
    IN  IF bad = {} THEN Len(raises)
        ELSE (CHOOSE i \in bad : \A j \in bad : i <= j) - 1

(***************************************************************************)
(* analyze_benchmark_suite.                                                *)
(***************************************************************************)
SuiteNames ==
    {"rsync_default", "rsync_compress", "rsync_checksum",
     "tar_plain", "tar_zstd", "tar_gzip"}

SuiteTests(res) == SelectSeq(res, LAMBDA g : g.key \in SuiteNames)

\* sorted_tests before the sort: (test, mean_duration, throughput, run)
SuiteEntries(res) ==
    LET e == FlattenRuns(SuiteTests(res))
    IN  [i \in 1..Len(e) |->
            [test |-> e[i].test, file |-> e[i].file,
             sortkey |-> MeanOf(e[i].file),
             throughput |-> ThroughputOf(e[i].file)]]

\* baseline_throughput when row i is printed: the first positive throughput
\* among rows 1..i, or 0 for None
SuiteBaseline(rows, i) ==
    LET pos == {j \in 1..i : rows[j].throughput > 0}
    IN  IF pos = {} THEN 0
        ELSE rows[CHOOSE j \in pos : \A m \in pos : j <= m].throughput

SuiteRelative(throughput, baseline) ==
    IF baseline # 0 /\ throughput > 0 /\ throughput > baseline
    THEN RatioCell(throughput, baseline)
    ELSE Text("")

SuiteRow(rows, i) ==
    [test |-> rows[i].test,
     file |-> rows[i].file,
     mean |-> format_duration(MeanOf(rows[i].file)),
     stdev |-> format_duration(StdevOf(rows[i].file)),
     cv |-> CvOf(rows[i].file).v,
     throughput |-> format_throughput(rows[i].throughput),
     relative |-> SuiteRelative(rows[i].throughput, SuiteBaseline(rows, i)),
     runs |-> Get(Catalogue[rows[i].file].runs, Num(1)).v]

SuiteTable(res) ==
    LET rows == SortRows(SuiteEntries(res))
    IN  [i \in 1..Len(rows) |-> SuiteRow(rows, i)]

\* an exception no stage catches: the lines printed so far, then the traceback
Crash(printed) ==
    /\ pc' = "crashed"
    /\ messages' = messages \o printed \o <<"Traceback">>
    /\ exitCode' = 1

SuiteBanner == "BENCHMARK SUITE RESULTS (with statistics)"
SuiteHeader == "Benchmark Mean StdDev CV% Throughput Runs"
NoSuite == "No benchmark suite results found."

\* the lines the suite section prints around its rows
SuiteLines(res) ==
    IF SuiteTests(res) = <<>> THEN <<SuiteBanner, NoSuite>>
    ELSE <<SuiteBanner, SuiteHeader>>

AnalyzeSuite ==
    /\ pc = "suite"
    /\ IF SuiteTests(results) = <<>>
       THEN /\ messages' = messages \o SuiteLines(results)
            /\ pc' = "par"
            /\ UNCHANGED <<termSuite, exitCode>>
       ELSE IF SortRaises(SuiteEntries(results))
       THEN /\ Crash(SuiteLines(results))
            /\ UNCHANGED termSuite
       ELSE /\ termSuite' = SuiteTable(results)
            /\ messages' = messages \o SuiteLines(results)
            /\ pc' = "par"
            /\ UNCHANGED exitCode
    /\ UNCHANGED <<input, pending, results, warnings, termParallel, termResume,
                   mdSuite, mdParallel, mdResume, fastestTool, written>>

(***************************************************************************)
(* analyze_parallel_benchmarks.                                            *)
(***************************************************************************)
ParallelTests(res) == SelectSeq(res, LAMBDA g : StartsWith(g.key, "parallel_"))

\* test_data before the sort: (parallelism, duration, throughput, test)
ParallelEntries(groups) ==
    LET e == FlattenRuns(groups)
    IN  [i \in 1..Len(e) |->
            [test |-> e[i].test, file |-> e[i].file,
             sortkey |-> ParallelismOf(e[i].file),
             duration |-> FlatDurationOf(e[i].file),
             throughput |-> ThroughputOf(e[i].file)]]

ParallelRowRaises(row) == FormatDurationRaises(row.duration)

\* "if baseline_throughput and throughput > 0"; the baseline is the first row's
ParallelSpeedup(throughput, baseline) ==
    IF baseline # 0 /\ throughput > 0 THEN RatioCell(throughput, baseline)
    ELSE Text("")

ParallelRow(rows, i) ==
    [test |-> rows[i].test,
     file |-> rows[i].file,
     parallelism |-> rows[i].sortkey.v,
     duration |-> format_duration(rows[i].duration),
     throughput |-> format_throughput(rows[i].throughput),
     speedup |-> ParallelSpeedup(rows[i].throughput, rows[1].throughput)]

ParallelBanner == "PARALLEL TRANSFER RESULTS"
ParallelHeader == "Configuration Duration Throughput Speedup"
NoParallel == "No parallel benchmark results found."

\* the lines the parallel section prints around its rows
ParallelLines(res) ==
    IF ParallelTests(res) = <<>> THEN <<ParallelBanner, NoParallel>>
    ELSE <<ParallelBanner, ParallelHeader>>

AnalyzeParallel ==
    /\ pc = "par"
    /\ IF ParallelTests(results) = <<>>
       THEN /\ messages' = messages \o ParallelLines(results)
            /\ pc' = "res"
            /\ UNCHANGED <<termParallel, exitCode>>
       ELSE LET rows == SortRows(ParallelEntries(ParallelTests(results)))
                n == PrintedBefore([i \in 1..Len(rows) |-> ParallelRowRaises(rows[i])])
            IN  /\ termParallel' = [i \in 1..n |-> ParallelRow(rows, i)]
                /\ IF n < Len(rows)
                   THEN Crash(ParallelLines(results))
                   ELSE /\ messages' = messages \o ParallelLines(results)
                        /\ pc' = "res"
                        /\ UNCHANGED exitCode
    /\ UNCHANGED <<input, pending, results, warnings, termSuite, termResume,
                   mdSuite, mdParallel, mdResume, fastestTool, written>>

(***************************************************************************)
(* analyze_resume_tests.                                                   *)
(***************************************************************************)
ResumeTests(res) == SelectSeq(res, LAMBDA g : StartsWith(g.key, "resume_"))

\* sorted(resume_tests): the groups in the order of their keys
SortedGroups(groups) ==
    LET keyed == [i \in 1..Len(groups) |->
                    [key |-> groups[i].key, runs |-> groups[i].runs,
                     sortkey |-> Str(groups[i].key)]]
        s == SortRows(keyed)
    IN  [i \in 1..Len(s) |-> [key |-> s[i].key, runs |-> s[i].runs]]

ResumeRow(e) ==
    [test |-> e.test,
     file |-> e.file,
     partial |-> format_duration(Get(Catalogue[e.file].partial_duration_seconds, Num(0))),
     resume |-> format_duration(Get(Catalogue[e.file].resume_duration_seconds, Num(0))),
     total |-> format_duration(Get(Catalogue[e.file].total_duration_seconds, Num(0))),
     file_size |-> format_bytes(Get(Catalogue[e.file].file_size_bytes, Num(0)))]

ResumeTable(res) ==
    LET e == FlattenRuns(SortedGroups(ResumeTests(res)))
    IN  [i \in 1..Len(e) |-> ResumeRow(e[i])]

ResumeBanner == "RESUME/PARTIAL TRANSFER RESULTS"
ResumeHeader == "Test Partial Resume Total File Size"
NoResume == "No resume test results found."

\* a section that prints the header of an empty table
ResumeLinesEmptyTable(res) == <<ResumeBanner, ResumeHeader>>

\* the lines the resume section prints around its rows
ResumeLines(res) ==
    IF ResumeTests(res) = <<>> THEN <<ResumeBanner, NoResume>>
    ELSE <<ResumeBanner, ResumeHeader>>

AnalyzeResume ==
    /\ pc = "res"
    /\ IF ResumeTests(results) = <<>>
       THEN UNCHANGED termResume
       ELSE termResume' = ResumeTable(results)
    /\ messages' = messages \o ResumeLines(results)
    /\ pc' = "table"
    /\ UNCHANGED <<input, pending, results, warnings, termSuite, termParallel,
                   mdSuite, mdParallel, mdResume, fastestTool, written, exitCode>>

(***************************************************************************)
(* generate_comparison_table.                                              *)
(***************************************************************************)
\* the suite_tests dict, in its insertion order
MdSuiteOrder ==
    <<"rsync_default", "rsync_compress", "rsync_checksum",
      "tar_plain", "tar_gzip", "tar_zstd">>

GroupOf(res, key) == res[CHOOSE i \in 1..Len(res) : res[i].key = key]

\* for test_key in suite_tests: if test_key in results
MdSuiteGroups(res) ==
    LET present == SelectSeq(MdSuiteOrder, LAMBDA key : HasKey(res, key))
    IN  [i \in 1..Len(present) |-> GroupOf(res, present[i])]

\* f"{mean:.1f}s" raises ValueError on a string
MdSuiteRowRaises(e) == MeanOf(e.file).k # "num" \/ StdevOf(e.file).k # "num"

MdNotes(test_key, throughput) ==
    IF Contains(test_key, "compress") /\ throughput > 0
    THEN "Good for compressible data"
    ELSE IF Contains(test_key, "checksum") THEN "CPU-intensive verification"
    ELSE ""

MdSuiteRow(e) ==
    [test |-> e.test,
     file |-> e.file,
     mean |-> Cell("s", MeanOf(e.file).v),
     stdev |-> Cell("s", StdevOf(e.file).v),
     throughput |-> format_throughput(ThroughputOf(e.file)),
     cv |-> CvOf(e.file).v,
     notes |-> MdNotes(e.test, ThroughputOf(e.file))]

MdParallelTests(res) ==
    SelectSeq(res, LAMBDA g : StartsWith(g.key, "parallel_rsync_p"))

\* speedup = throughput / baseline_throughput if baseline_throughput > 0 else 1
MdSpeedup(throughput, baseline) ==
    IF baseline > 0 THEN RatioCell(throughput, baseline) ELSE Cell("x", 10)

\* efficiency = (speedup / p) * 100 if p > 0 else 100, as "{:.0f}%"
MdEfficiency(throughput, baseline, p) ==
    IF p > 0
    THEN IF baseline > 0
         THEN Cell("%", RoundHalfEven(100 * throughput, baseline * p))
         ELSE Cell("%", RoundHalfEven(100, p))
    ELSE Cell("%", 100)

MdParallelRow(rows, i) ==
    [file |-> rows[i].file,
     parallelism |-> rows[i].sortkey.v,
     duration |-> format_duration(rows[i].duration),
     throughput |-> format_throughput(rows[i].throughput),
     speedup |-> MdSpeedup(rows[i].throughput, rows[1].throughput),
     efficiency |-> MdEfficiency(rows[i].throughput, rows[1].throughput,
                                 rows[i].sortkey.v)]

MdResumeRow(e) ==
    [test_name |-> Replace(e.test, "resume_"),
     file |-> e.file,
     partial |-> format_duration(Get(Catalogue[e.file].partial_duration_seconds, Num(0))),
     resume |-> format_duration(Get(Catalogue[e.file].resume_duration_seconds, Num(0))),
     total |-> format_duration(Get(Catalogue[e.file].total_duration_seconds, Num(0))),
     overhead |-> Text("N/A")]

MdResumeTable(res) ==
    LET e == FlattenRuns(SortedGroups(ResumeTests(res)))
    IN  [i \in 1..Len(e) |-> MdResumeRow(e[i])]

TableBanner == "BLOG POST COMPARISON TABLE"
MdSuiteHeader == "| Tool | Configuration | Duration | Throughput | CV% | Notes |"
MdParallelHeader == "| Parallelism | Duration | Throughput | Speedup | Efficiency |"
MdResumeHeader == "| Method | Partial Duration | Resume Duration | Total Time | Overhead |"

\* the resume header is printed only when there is a resume group
MdResumeLines(res) == IF ResumeTests(res) = <<>> THEN <<>> ELSE <<MdResumeHeader>>

GenerateComparisonTable ==
    /\ pc = "table"
    /\ LET se == FlattenRuns(MdSuiteGroups(results))
           sn == PrintedBefore([i \in 1..Len(se) |-> MdSuiteRowRaises(se[i])])
           pe == SortRows(ParallelEntries(MdParallelTests(results)))
           pn == PrintedBefore([i \in 1..Len(pe) |-> ParallelRowRaises(pe[i])])
       IN  /\ mdSuite' = [i \in 1..sn |-> MdSuiteRow(se[i])]
           /\ IF sn < Len(se)
              THEN /\ Crash(<<TableBanner, MdSuiteHeader>>)
                   /\ UNCHANGED <<mdParallel, mdResume>>
              ELSE /\ mdParallel' = [i \in 1..pn |-> MdParallelRow(pe, i)]
                   /\ IF pn < Len(pe)
                      THEN /\ Crash(<<TableBanner, MdSuiteHeader, MdParallelHeader>>)
                           /\ UNCHANGED mdResume
                      ELSE /\ mdResume' = MdResumeTable(results)
                           /\ messages' = messages
                                 \o <<TableBanner, MdSuiteHeader, MdParallelHeader>>
                                 \o MdResumeLines(results)
                           /\ pc' = "summary"
                           /\ UNCHANGED exitCode
    /\ UNCHANGED <<input, pending, results, warnings, termSuite, termParallel,
                   termResume, fastestTool, written>>

(***************************************************************************)
(* generate_summary_report.                                                *)
(***************************************************************************)
\* the scan for the fastest tool: a run takes over only with a strictly
\* greater throughput
RECURSIVE FastestScan(_, _)
FastestScan(entries, best) ==
    IF entries = <<>> THEN best
    ELSE FastestScan(Tail(entries),
                     IF ThroughputOf(Head(entries).file) > best.throughput
                     THEN [key |-> Head(entries).test,
                           throughput |-> ThroughputOf(Head(entries).file)]
                     ELSE best)

FastestTool(res) == FastestScan(FlattenRuns(res), NoTool)

CompressTests(res) ==
    SelectSeq(res, LAMBDA g : \/ Contains(g.key, "compress")
                              \/ Contains(g.key, "gzip")
                              \/ Contains(g.key, "zstd"))

SummaryParallelTests(res) == SelectSeq(res, LAMBDA g : Contains(g.key, "parallel"))

SummaryLines(res) ==
    <<"Total Benchmarks: " \o ToString(Len(res)),
      "Total Runs: " \o ToString(Len(FlattenRuns(res)))>>
    \o (IF CompressTests(res) # <<>>
        THEN <<"Compression Tools Tested: " \o ToString(Len(CompressTests(res)))>>
        ELSE <<>>)
    \o (IF SummaryParallelTests(res) # <<>>
        THEN <<"Parallel Configurations: " \o ToString(Len(SummaryParallelTests(res)))>>
        ELSE <<>>)

SummaryBanner == "BENCHMARK SUMMARY REPORT"

GenerateSummaryReport ==
    /\ pc = "summary"
    /\ IF sysInfo = "invalid"
       THEN /\ Crash(<<SummaryBanner>>)
            /\ UNCHANGED fastestTool
       ELSE /\ fastestTool' = FastestTool(results)
            /\ messages' = messages \o <<SummaryBanner>> \o SummaryLines(results)
            /\ pc' = "complete"
            /\ UNCHANGED exitCode
    /\ UNCHANGED <<input, pending, results, warnings, termSuite, termParallel,
                   termResume, mdSuite, mdParallel, mdResume, written>>

\* the tail of main: the process ends with status 0
Complete ==
    /\ pc = "complete"
    /\ pc' = "done"
    /\ messages' = Append(messages, "Analysis complete!")
    /\ exitCode' = 0
    /\ UNCHANGED <<input, pending, results, warnings, report, written>>

Next ==
    \/ Usage
    \/ DirMissing
    \/ LoadStart
    \/ LoadStats
    \/ StatsDone
    \/ LoadTool
    \/ ToolDone
    \/ LoadParallel
    \/ ParallelDone
    \/ LoadResume
    \/ ResumeDone
    \/ NoResults
    \/ Loaded
    \/ AnalyzeSuite
    \/ AnalyzeParallel
    \/ AnalyzeResume
    \/ GenerateComparisonTable
    \/ GenerateSummaryReport
    \/ Complete

Spec == Init /\ [][Next]_vars

(***************************************************************************)
(* Vocabulary of the properties.                                           *)
(***************************************************************************)
\* load_results has just returned to main; the store never changes afterwards
LoadReturned == pc = "loaded"

\* load_results has returned
Scanned ==
    /\ argGiven
    /\ dirExists
    /\ pc \notin {"main", "stats", "tool", "parallel", "resume"}

\* the run is over, one way or another
Ended == pc \in {"done", "crashed", "exited"}

Name(f) == Catalogue[f].name

\* a result file: one that some naming convention recognizes
Recognized(f) ==
    \/ MatchesStats(Name(f))
    \/ MatchesTool(Name(f))
    \/ MatchesParallel(Name(f))
    \/ MatchesResume(Name(f))

\* how many records of file f the group of key holds
StoreCount(res, f, key) ==
    IF HasKey(res, key)
    THEN Cardinality({i \in 1..Len(GroupOf(res, key).runs) :
                        GroupOf(res, key).runs[i] = f})
    ELSE 0

StoreKeys(res) == {res[i].key : i \in 1..Len(res)}

\* how many records of file f the store holds, over all groups
RecordsOf(res, f) ==
    Cardinality({e \in 1..Len(FlattenRuns(res)) : FlattenRuns(res)[e].file = f})

WarningsOf(f) == Cardinality({i \in 1..Len(warnings) : warnings[i] = f})

\* what file f adds to the group of key, whatever the order of discovery
Contribution(f, key) ==
    IF ~Parses(f) THEN 0
    ELSE (IF MatchesStats(Name(f)) /\ KeyStats(f) = key THEN 1 ELSE 0)
       + (IF MatchesTool(Name(f)) /\ KeyTool(f) = key THEN 1 ELSE 0)
       + (IF MatchesParallel(Name(f)) /\ KeyParallel(f) = key THEN 1 ELSE 0)
       + (IF MatchesResume(Name(f)) /\ KeyResume(f) = key THEN 1 ELSE 0)

PossibleKeys(F) ==
    UNION {{KeyStats(f), KeyTool(f), KeyParallel(f), KeyResume(f)} : f \in F}

\* the store holds, as multisets, what the files of F contribute
StoreHolds(res, F) ==
    /\ StoreKeys(res) = {key \in PossibleKeys(F) : \E f \in F : Contribution(f, key) > 0}
    /\ \A i, j \in 1..Len(res) : res[i].key = res[j].key => i = j
    /\ \A key \in StoreKeys(res) \cup PossibleKeys(F) : \A f \in files :
          StoreCount(res, f, key) = IF f \in F THEN Contribution(f, key) ELSE 0

(***************************************************************************)
(* C1.  After load_results has scanned the directory, every result file    *)
(* that parsed has contributed exactly one record to the store, and that   *)
(* record sits in exactly one group, also when the file's name matches     *)
(* more than one naming convention.                                        *)
(***************************************************************************)
C1_OneRecordPerFile ==
    LoadReturned =>
        \A f \in files :
            (Recognized(f) /\ Parses(f)) =>
                /\ RecordsOf(results, f) = 1
                /\ Cardinality({key \in StoreKeys(results) :
                                    StoreCount(results, f, key) > 0}) = 1

(***************************************************************************)
(* C2.  A file that fails to parse is isolated: load_results prints one    *)
(* warning for it, adds no record for it, and the store holds the records  *)
(* of the other files exactly as if the failing files were absent; the     *)
(* scan always runs to its end.                                            *)
(***************************************************************************)
\* the part of C2 about the store: no record of a failing file, and the
\* others' records as they would be without it
C2_FailuresLeaveStoreAlone ==
    LoadReturned =>
        /\ \A f \in files : ~Parses(f) => RecordsOf(results, f) = 0
        /\ StoreHolds(results, {f \in files : Parses(f)})

C2_ParseFailureIsolated ==
    LoadReturned =>
        /\ \A f \in files :
              (Recognized(f) /\ ~Parses(f)) => WarningsOf(f) = 1
        /\ \A f \in files : ~Parses(f) => RecordsOf(results, f) = 0
        /\ StoreHolds(results, {f \in files : Parses(f)})

(***************************************************************************)
(* C3.  Grouping is identity-stable: whatever the order in which the files *)
(* are discovered, the store ends with the same set of groups and the same *)
(* multiset of records in each group; two records with the same            *)
(* synthesized identity sit in the same group.                             *)
(***************************************************************************)
C3_GroupingIdentityStable == LoadReturned => StoreHolds(results, files)

\* two files of one parallel identity, met in the reverse of their name order
C3_Witness ==
    /\ pc = "loaded"
    /\ HasKey(results, "parallel_rsync_p4")
    /\ GroupOf(results, "parallel_rsync_p4").runs = <<10, 9>>

(***************************************************************************)
(* C4.  When the scan of an existing directory yields no record, the       *)
(* driver exits with a non-zero status and the line "No benchmark results  *)
(* found.", which is not the line of a missing directory; it renders no    *)
(* section and writes no file.                                             *)
(***************************************************************************)
C4_EmptyScanIsFatal ==
    /\ (Scanned /\ pc # "loaded" /\ results = <<>>) =>
          /\ pc = "exited"
          /\ exitCode > 0
          /\ messages = <<"No benchmark results found.">>
          /\ termSuite = <<>> /\ termParallel = <<>> /\ termResume = <<>>
          /\ mdSuite = <<>> /\ mdParallel = <<>> /\ mdResume = <<>>
          /\ fastestTool = NoTool
          /\ written = {}
    /\ (argGiven /\ ~dirExists /\ pc = "exited") =>
          /\ messages # <<"No benchmark results found.">>
          /\ exitCode > 0

\* a directory that holds files, none of which gave a record
C4_Witness ==
    /\ pc = "exited"
    /\ dirExists
    /\ files # {}
    /\ results = <<>>
    /\ exitCode = 1

(***************************************************************************)
(* C5.  Whenever the directory exists and at least one record was loaded,  *)
(* the driver runs every stage and completes: an error raised while one    *)
(* section is rendered never keeps the later sections from being rendered. *)
(***************************************************************************)
C5_RunsToCompletion ==
    (Scanned /\ results # <<>> /\ Ended) => (pc = "done" /\ exitCode = 0)

(***************************************************************************)
(* C6.  In every table that shows a speedup, when the baseline (the first  *)
(* row in sorted order) has throughput 0 or none, the speedup of every     *)
(* other row is undefined: no number is shown for it.                      *)
(***************************************************************************)
Undefined(cell) == cell.k = "text"

C6_TermParallelUndefined ==
    \A i \in 2..Len(termParallel) :
        ThroughputOf(termParallel[1].file) = 0 => Undefined(termParallel[i].speedup)

C6_ZeroBaselineIsUndefined ==
    /\ \A i \in 2..Len(termSuite) :
          ThroughputOf(termSuite[1].file) = 0 => Undefined(termSuite[i].relative)
    /\ C6_TermParallelUndefined
    /\ \A i \in 2..Len(mdParallel) :
          ThroughputOf(mdParallel[1].file) = 0 => Undefined(mdParallel[i].speedup)

(***************************************************************************)
(* C7.  In the markdown parallel table, a row with parallelism p > 0 shows *)
(* the efficiency speedup(p) / p x 100, speedup(p) being the row's         *)
(* throughput over that of the lowest-parallelism row; a row with p <= 0   *)
(* shows no numeric efficiency.                                            *)
(***************************************************************************)
\* the part of C7 about rows with p > 0 under a positive baseline
C7_EfficiencyOfPositiveRows ==
    \A i \in 1..Len(mdParallel) :
        LET p == mdParallel[i].parallelism
            base == ThroughputOf(mdParallel[1].file)
            thr == ThroughputOf(mdParallel[i].file)
        IN  (p > 0 /\ base > 0) =>
                /\ mdParallel[i].speedup = Cell("x", RoundHalfEven(10 * thr, base))
                /\ mdParallel[i].efficiency
                     = Cell("%", RoundHalfEven(100 * thr, base * p))

C7_EfficiencyDefinedForPositiveOnly ==
    /\ C7_EfficiencyOfPositiveRows
    /\ \A i \in 1..Len(mdParallel) :
          mdParallel[i].parallelism <= 0 => mdParallel[i].efficiency.k # "%"

(***************************************************************************)
(* C8.  A group of several repeated runs is reported as one entry, whose   *)
(* mean is taken over the durations of all the records of the group, not   *)
(* as one row per record.                                                  *)
(***************************************************************************)
RECURSIVE SumOfMeans(_)
SumOfMeans(runs) ==
    IF runs = <<>> THEN 0 ELSE MeanOf(Head(runs)).v + SumOfMeans(Tail(runs))

GroupMean(g) == RoundHalfEven(SumOfMeans(g.runs), Len(g.runs))

AllNumeric(g) == \A i \in 1..Len(g.runs) : MeanOf(g.runs[i]).k = "num"

C8_OneEntryPerGroup ==
    /\ termSuite # <<>> =>
          \A g \in {SuiteTests(results)[i] : i \in 1..Len(SuiteTests(results))} :
              /\ Cardinality({i \in 1..Len(termSuite) : termSuite[i].test = g.key}) = 1
              /\ \A i \in 1..Len(termSuite) :
                    (termSuite[i].test = g.key /\ AllNumeric(g)) =>
                        termSuite[i].mean = format_duration(Num(GroupMean(g)))
    /\ (pc = "summary" /\ mdSuite # <<>>) =>
          \A g \in {MdSuiteGroups(results)[i] : i \in 1..Len(MdSuiteGroups(results))} :
              Cardinality({i \in 1..Len(mdSuite) : mdSuite[i].test = g.key}) = 1

(***************************************************************************)
(* C9.  The rows of every table are sorted: suite and tool rows by         *)
(* ascending mean duration, parallel rows by ascending parallelism, resume *)
(* rows by test name, in the terminal report and in the markdown alike.    *)
(***************************************************************************)
Ascending(rows, Key(_)) ==
    \A i, j \in 1..Len(rows) : i < j => ~KeyLess(Key(rows[j]), Key(rows[i]))

RowMean(row) == MeanOf(row.file)
RowParallelism(row) == Num(row.parallelism)
RowTest(row) == Str(row.test)
RowTestName(row) == Str(row.test_name)

\* the tables C9 is right about
C9_SortedButMarkdownSuite ==
    /\ Ascending(termSuite, RowMean)
    /\ Ascending(termParallel, RowParallelism)
    /\ Ascending(mdParallel, RowParallelism)
    /\ Ascending(termResume, RowTest)
    /\ Ascending(mdResume, RowTestName)

C9_EveryTableSorted ==
    /\ C9_SortedButMarkdownSuite
    /\ Ascending(mdSuite, RowMean)

(***************************************************************************)
(* C10.  The entry the terminal suite table shows first (the lowest mean   *)
(* duration) is the entry the summary report names as the fastest tool,    *)
(* whenever it names one.                                                  *)
(***************************************************************************)
C10_SameFastestEntry ==
    (pc = "done" /\ termSuite # <<>> /\ fastestTool # NoTool) =>
        fastestTool.key = termSuite[1].test

(***************************************************************************)
(* C11.  Both shapes of duration_seconds are supported in every category:  *)
(* a record whose duration is the object {mean: d, ...} is rendered as the *)
(* record whose duration is the flat number d, in the suite and in the     *)
(* parallel tables, and a duration that is no number is shown as it is;    *)
(* no shape ends the run.                                                  *)
(***************************************************************************)
Printed(line) == \E i \in 1..Len(messages) : messages[i] = line

\* the terminal parallel section has run, to its end or to an exception
ParallelSectionRan == Printed(ParallelBanner)

C11_BothDurationShapesRendered ==
    /\ \A i \in 1..Len(termSuite) :
          termSuite[i].mean = format_duration(MeanOf(termSuite[i].file))
    /\ ParallelSectionRan =>
          LET e == ParallelEntries(ParallelTests(results))
          IN  \A i \in 1..Len(e) :
                \E j \in 1..Len(termParallel) :
                    /\ termParallel[j].file = e[i].file
                    /\ termParallel[j].duration = format_duration(MeanOf(e[i].file))
    /\ pc = "suite" => ~SortRaises(SuiteEntries(results))
    /\ pc = "table" =>
          \A i \in 1..Len(FlattenRuns(MdSuiteGroups(results))) :
              ~MdSuiteRowRaises(FlattenRuns(MdSuiteGroups(results))[i])

(***************************************************************************)
(* C12.  After every run that loaded at least one record, the results      *)
(* directory holds a summary.json written by that run, and it is the only  *)
(* file the run writes.                                                    *)
(***************************************************************************)
C12_SummaryWritten ==
    (pc = "done" /\ results # <<>>) => written = {"summary.json"}

(***************************************************************************)
(* C13.  In the terminal report a category (suite, parallel, resume) whose *)
(* group set is empty gets the explicit "no ... results found" line and    *)
(* neither a table header nor a row; a category whose group set is not     *)
(* empty gets its table (the header, and a row for each of its records     *)
(* when the section runs to its end) and not that line.                    *)
(***************************************************************************)
RunsIn(groups) == Len(FlattenRuns(groups))

\* what a section has printed, given its groups, its lines and its rows;
\* ended tells whether the section ran to its end
SectionShown(groups, banner, header, noLine, rows, ended) ==
    IF ~Printed(banner)
    THEN ~Printed(header) /\ ~Printed(noLine) /\ rows = <<>>
    ELSE IF groups = <<>>
    THEN Printed(noLine) /\ ~Printed(header) /\ rows = <<>>
    ELSE /\ Printed(header)
         /\ ~Printed(noLine)
         /\ \A i \in 1..Len(rows) :
               \E g \in 1..Len(groups) : groups[g].key = rows[i].test
         /\ ended => Len(rows) = RunsIn(groups)

RowOf(rows, key, f) ==
    \E i \in 1..Len(rows) : rows[i].test = key /\ rows[i].file = f

C14_EveryRecordRendered ==
    Printed(ResumeBanner) =>
        \A g \in 1..Len(results) : \A r \in 1..Len(results[g].runs) :
            LET key == results[g].key
                f == results[g].runs[r]
            IN  /\ \/ RowOf(termSuite, key, f)
                   \/ RowOf(termParallel, key, f)
                   \/ RowOf(termResume, key, f)
                /\ (MatchesParallel(Name(f)) /\ key = KeyParallel(f)) =>
                       RowOf(termParallel, key, f)

====
